---- MODULE Spec2Model ----
(***************************************************************************)
(* Edge-Model-Registry: the ModelRegistry class of edge_registry/core.py   *)
(* as a state machine over a small file system.                            *)
(*                                                                         *)
(* A call of a method runs as a sequence of steps, one per file-system     *)
(* access of the code (pc is the position inside the method); a call ends  *)
(* in "done", where ret holds what the caller gets (a value or the raised  *)
(* exception), and Return hands it to the caller.  The process can crash   *)
(* between any two steps.  Files outside the process's control (the        *)
(* sources, the stored artifacts, the metadata document) can be changed by *)
(* the environment while no call is running.                               *)
(***************************************************************************)
EXTENDS Integers, Sequences, FiniteSets, TLC

VARIABLES
    files,      \* artifact and source files: absolute path -> content
    meta,       \* registry.json and registry.json.tmp: path -> [kind, doc]
    dirs,       \* the directories that exist
    inst,       \* ModelRegistry._instance and its attributes
    cache,      \* self._in_memory_cache: key -> object
    nextId,     \* identity of the next object f.read() creates
    now,        \* time.time()
    pc,         \* position of each thread inside its call
    loc,        \* arguments and local variables of each thread's call
    ret,        \* outcome of each thread's call
    pre,        \* the stores as they were when each thread's call started
    registered, \* pair -> content its source had when it was last registered
    faults,     \* crashes and failed disk writes so far
    changes     \* files changed from outside so far

vars == <<files, meta, dirs, inst, cache, nextId, now, pc, loc, ret, pre,
          registered, faults, changes>>

-----------------------------------------------------------------------------
(* Bounds and input sets *)

MaxTime == 2    \* the clock runs from 0 to MaxTime, one tick per register call
MaxObj == 2     \* the cold loads of one process create objects 0 .. MaxObj-1
MaxFaults == 1  \* crashes and failed disk writes in one run
MaxChanges == 1 \* files changed from outside in one run

Threads == {"t1", "t2"}
MainThread == {"t1"}

\* the (name, version) pairs the callers use
Pairs == {<<"m", "1">>, <<"m", "x_1">>, <<"m_x", "1">>}
\* contents of a model file (bytes): plain text, text with a Windows line
\* ending, and bytes that are not text in the default encoding
NotText == "0xFF"
Contents == {"c1", "c2\r\n", NotText}
BaseDir == "data"
BaseDirs == {BaseDir, "elsewhere"}
cwd == "/w"
RegistryPath == BaseDir \o "/registry.json"

-----------------------------------------------------------------------------
(* Python values *)

None == "None"
EmptyDict == [k \in {} |-> 0]
DictSet(d, k, v) == [y \in (DOMAIN d) \cup {k} |-> IF y = k THEN v ELSE d[y]]
DictGet(d, k, default) == IF k \in DOMAIN d THEN d[k] ELSE default
DictDel(d, k) == [y \in (DOMAIN d) \ {k} |-> d[y]]

Ok(v) == [kind |-> "ok", val |-> v]
Raise(e) == [kind |-> "raise", exc |-> e]

\* The register calls the callers make: the source file, metrics, metadata.
\* An optional dict argument is <<>> for None and <<d>> for the dict d.
Requests ==
    {[model_path |-> [dir |-> "/tmp", base |-> "a.bin"], metrics |-> <<>>, metadata |-> <<>>],
     [model_path |-> [dir |-> "/tmp", base |-> "b.bin"],
      metrics |-> <<DictSet(EmptyDict, "accuracy", 9)>>,
      metadata |-> <<DictSet(EmptyDict, "author", "x")>>]}
SourceFiles == {r.model_path : r \in Requests}

\* os.path: the callers' paths are relative to the working directory
join(a, b) == a \o "/" \o b
basename(sp) == sp.base
SourcePath(sp) == join(sp.dir, sp.base)
abspath(p) == join(cwd, p)
exists(p) == p \in DOMAIN meta \/ p \in DOMAIN files \/ p \in dirs

\* what a metadata file holds
Absent == [kind |-> "absent", doc |-> EmptyDict]
\* text that is not JSON, and bytes that are not text in the default encoding
Garbage == [kind |-> "garbage", doc |-> EmptyDict]
Undecodable == [kind |-> "binary", doc |-> EmptyDict]
Truncated == [kind |-> "empty", doc |-> EmptyDict]
Partial(data) == [kind |-> "partial", doc |-> data]
json_dump(data) == [kind |-> "json", doc |-> data]
ReadMeta(p) == DictGet(meta, p, Absent)

\* open(path, "r") and json.load: the file is opened, its bytes are decoded
\* to text (f.read() inside json.load), and the text is parsed
json_load(p) ==
    LET f == ReadMeta(p)
    IN  IF f.kind = "absent" THEN Raise("FileNotFoundError")
        ELSE IF f.kind = "binary" THEN Raise("UnicodeDecodeError")
        ELSE IF f.kind = "json" THEN Ok(f.doc)
        ELSE Raise("JSONDecodeError")

NoInstance == [exists |-> FALSE, id |-> 0, initialized |-> FALSE, base_dir |-> "",
               models_dir |-> "", registry_path |-> ""]
NoCall == [op |-> "none"]
NoRet == [kind |-> "none"]
NoPre == [taken |-> FALSE]
Snapshot == [taken |-> TRUE, files |-> files, meta |-> meta, dirs |-> dirs,
             cache |-> cache, inst |-> inst, pc |-> pc]

-----------------------------------------------------------------------------
(* ModelRegistry._load_registry *)

_load_registry ==
    LET r == json_load(inst.registry_path)
    IN  IF r.kind = "raise" /\ r.exc \in {"JSONDecodeError", "FileNotFoundError"}
        THEN Ok(EmptyDict)
        ELSE r

\* data.get(name, {}).get(version, {}).get("path")
Lookup(data, name, version) ==
    DictGet(DictGet(DictGet(data, name, EmptyDict), version, EmptyDict), "path", None)

\* a save that writes the canonical file in place
temp_path_in_place == inst.registry_path

temp_path == inst.registry_path \o ".tmp"

cache_key(name, version) == name \o "_" \o version

Quiet == \A t \in Threads : pc[t] = "idle"
Ready(t) == pc[t] = "idle" /\ inst.initialized

Goto(t, l) == pc' = [pc EXCEPT ![t] = l]
Finish(t, r) == /\ pc' = [pc EXCEPT ![t] = "done"]
                /\ ret' = [ret EXCEPT ![t] = r]
Begin(t, l, c) == /\ pc' = [pc EXCEPT ![t] = l]
                  /\ loc' = [loc EXCEPT ![t] = c]
                  /\ pre' = [pre EXCEPT ![t] = Snapshot]

-----------------------------------------------------------------------------
(* ModelRegistry.__new__ and __init__ *)

\* a constructor that rewrites the metadata file whether it exists or not
registry_missing_always(reg) == TRUE

registry_missing(reg) == ~exists(reg)

\* cls._instance after __new__: the object the slot holds, or a new one
\* (id counts the ModelRegistry objects the process has created)
__new__ ==
    IF inst.exists THEN inst
    ELSE [NoInstance EXCEPT !.exists = TRUE, !.id = inst.id + 1]

\* a constructor that runs its body on every call
never_initialized(self) == FALSE

\* hasattr(self, "_initialized") and self._initialized
already_initialized(self) == self.initialized

Construct(t, b) ==
    /\ pc[t] = "idle"
    /\ LET self == __new__
       IN  IF already_initialized(self)
           THEN /\ Begin(t, "done", [op |-> "init", base_dir |-> b])
                /\ ret' = [ret EXCEPT ![t] = Ok(self.id)]
                /\ inst' = self
                /\ UNCHANGED <<files, meta, dirs, cache, nextId, now,
                               registered, faults, changes>>
           ELSE LET reg == join(b, "registry.json")
                    new == [self EXCEPT !.initialized = FALSE, !.base_dir = b,
                                        !.models_dir = join(b, "models"),
                                        !.registry_path = reg]
                IN  /\ cache' = EmptyDict
                    /\ dirs' = dirs \cup {b, join(b, "models")}
                    /\ IF registry_missing(reg)
                       THEN /\ inst' = new
                            /\ Begin(t, "s_open", [op |-> "init", base_dir |-> b,
                                                    data |-> EmptyDict])
                            /\ UNCHANGED ret
                       ELSE /\ inst' = [new EXCEPT !.initialized = TRUE]
                            /\ Begin(t, "done", [op |-> "init", base_dir |-> b])
                            /\ ret' = [ret EXCEPT ![t] = Ok(self.id)]
                    /\ UNCHANGED <<files, meta, nextId, now, registered, faults, changes>>

-----------------------------------------------------------------------------
(* ModelRegistry._save_registry: open(temp_path, "w"), json.dump, close,   *)
(* shutil.move.  Inside one directory shutil.move is os.rename, which      *)
(* replaces the destination in one step.                                   *)

\* the file a thread holds open for writing is known to it by its handle,
\* not by its name: a rename of the file takes the handle along, and a
\* rename of another file onto it leaves the handle on a file without a name
Unlinked == "(unlinked)"

\* handle.write of the first part of the document, at the start of the file
write_head(f, data) ==
    IF f = Truncated \/ f = Partial(data) THEN Partial(data)
    ELSE IF f = json_dump(data) THEN f
    ELSE Garbage

\* handle.write of the rest of the document, where the first part ended
write_tail(f, data) ==
    IF f = Partial(data) \/ f = json_dump(data) THEN json_dump(data)
    ELSE Garbage

save_open(t) ==
    /\ pc[t] = "s_open"
    /\ meta' = DictSet(meta, temp_path, Truncated)
    /\ pc' = [pc EXCEPT ![t] = "s_dump"]
    /\ loc' = [loc EXCEPT ![t] = [fd |-> temp_path] @@ loc[t]]
    /\ UNCHANGED <<files, dirs, inst, cache, nextId, now, ret, pre,
                   registered, faults, changes>>

save_dump(t) ==
    /\ pc[t] = "s_dump"
    /\ meta' = IF loc[t].fd = Unlinked THEN meta
               ELSE DictSet(meta, loc[t].fd, write_head(meta[loc[t].fd], loc[t].data))
    /\ Goto(t, "s_close")
    /\ UNCHANGED <<files, dirs, inst, cache, nextId, now, loc, ret, pre,
                   registered, faults, changes>>

save_close(t) ==
    /\ pc[t] = "s_close"
    /\ meta' = IF loc[t].fd = Unlinked THEN meta
               ELSE DictSet(meta, loc[t].fd, write_tail(meta[loc[t].fd], loc[t].data))
    /\ Goto(t, "s_move")
    /\ UNCHANGED <<files, dirs, inst, cache, nextId, now, loc, ret, pre,
                   registered, faults, changes>>

\* shutil.move of a file to a path in the same directory is os.rename, which
\* replaces the destination in one step (POSIX rename)
move(src, dst) == DictSet(DictDel(meta, src), dst, meta[src])

\* the handles of the other threads after os.rename(src, dst)
moved(t, src, dst) ==
    [u \in Threads |->
        IF u = t \/ pc[u] \notin {"s_dump", "s_close"} THEN loc[u]
        ELSE IF loc[u].fd = src THEN [loc[u] EXCEPT !.fd = dst]
        ELSE IF loc[u].fd = dst THEN [loc[u] EXCEPT !.fd = Unlinked]
        ELSE loc[u]]

save_move(t) ==
    /\ pc[t] = "s_move"
    /\ IF temp_path \notin DOMAIN meta
       THEN /\ Finish(t, Raise("FileNotFoundError"))
            /\ UNCHANGED <<meta, inst, loc, registered>>
       ELSE /\ meta' = move(temp_path, inst.registry_path)
            /\ loc' = moved(t, temp_path, inst.registry_path)
            /\ IF loc[t].op = "init"
               THEN /\ inst' = [inst EXCEPT !.initialized = TRUE]
                    /\ Finish(t, Ok(inst.id))
                    /\ UNCHANGED registered
               ELSE /\ Finish(t, Ok(loc[t].info))
                    /\ registered' = DictSet(registered,
                                             <<loc[t].name, loc[t].version>>,
                                             loc[t].content)
                    /\ UNCHANGED inst
    /\ UNCHANGED <<files, dirs, cache, nextId, now, pre, faults, changes>>

\* a failed write that the call swallows: it returns the record all the same
save_fails_silently(t) ==
    /\ pc[t] \in {"s_open", "s_dump", "s_close", "s_move"}
    /\ faults < MaxFaults
    /\ faults' = faults + 1
    /\ Finish(t, IF loc[t].op = "init" THEN Ok(inst.id) ELSE Ok(loc[t].info))
    /\ UNCHANGED <<files, meta, dirs, inst, cache, nextId, now, loc, pre,
                   registered, changes>>

\* open, a write of json.dump, close or shutil.move raises: nothing in the
\* class catches it
save_fails(t) ==
    /\ pc[t] \in {"s_open", "s_dump", "s_close", "s_move"}
    /\ faults < MaxFaults
    /\ faults' = faults + 1
    /\ Finish(t, Raise("OSError"))
    /\ UNCHANGED <<files, meta, dirs, inst, cache, nextId, now, loc, pre,
                   registered, changes>>

-----------------------------------------------------------------------------
(* ModelRegistry.register_model *)

\* a register that records the artifact without copying it
copy2_skipped(src, dst) == files

\* shutil.copy2(model_path, dest_path)
copy2(src, dst) == DictSet(files, dst, files[src])

\* a store that keeps the versions of a name in one directory
model_dir_by_name(name, version) == join(inst.models_dir, name)

\* model_dir = os.path.join(self.models_dir, name, version)
model_dir(name, version) == join(join(inst.models_dir, name), version)

\* os.makedirs(model_dir, exist_ok=True), then shutil.copy2
register_model(t, name, version, model_path, metrics, metadata) ==
    /\ Ready(t)
    /\ now < MaxTime
    /\ LET dest_path == join(model_dir(name, version), basename(model_path))
           c == [op |-> "register", name |-> name, version |-> version,
                 metrics |-> IF metrics = <<>> THEN EmptyDict ELSE metrics[1],
                 metadata |-> IF metadata = <<>> THEN EmptyDict ELSE metadata[1],
                 src |-> SourcePath(model_path), dest_path |-> dest_path,
                 content |-> DictGet(files, SourcePath(model_path), "")]
       IN  /\ dirs' = dirs \cup {join(inst.models_dir, name), model_dir(name, version)}
           /\ IF exists(SourcePath(model_path))
              THEN /\ files' = copy2(SourcePath(model_path), abspath(dest_path))
                   /\ Begin(t, "r_load", c)
                   /\ UNCHANGED ret
              ELSE /\ Begin(t, "done", c)
                   /\ ret' = [ret EXCEPT ![t] = Raise("FileNotFoundError")]
                   /\ UNCHANGED files
    /\ now' = now + 1
    /\ UNCHANGED <<meta, inst, cache, nextId, registered, faults, changes>>

model_info(c, time) ==
    [name |-> c.name, version |-> c.version, path |-> abspath(c.dest_path),
     metrics |-> c.metrics, metadata |-> c.metadata, registered_at |-> time]

\* registry_data[name][version] = model_info
register_update(registry_data, info) ==
    LET d == IF info.name \in DOMAIN registry_data THEN registry_data
             ELSE DictSet(registry_data, info.name, EmptyDict)
    IN  DictSet(d, info.name, DictSet(d[info.name], info.version, info))

register_load(t) ==
    /\ pc[t] = "r_load"
    /\ LET r == _load_registry
           info == model_info(loc[t], now)
       IN  IF r.kind = "raise"
           THEN /\ Finish(t, r)
                /\ UNCHANGED loc
           ELSE /\ loc' = [loc EXCEPT ![t] =
                            [op |-> "register", name |-> loc[t].name,
                             version |-> loc[t].version, src |-> loc[t].src,
                             dest_path |-> loc[t].dest_path,
                             content |-> loc[t].content, info |-> info,
                             data |-> register_update(r.val, info)]]
                /\ Goto(t, "s_open")
                /\ UNCHANGED ret
    /\ UNCHANGED <<files, meta, dirs, inst, cache, nextId, now, pre,
                   registered, faults, changes>>

-----------------------------------------------------------------------------
(* ModelRegistry.get_model_path *)

get_model_path(t, name, version) ==
    /\ Ready(t)
    /\ Begin(t, "done", [op |-> "get_model_path", name |-> name, version |-> version])
    /\ LET r == _load_registry
       IN  ret' = [ret EXCEPT ![t] =
                     IF r.kind = "raise" THEN r ELSE Ok(Lookup(r.val, name, version))]
    /\ UNCHANGED <<files, meta, dirs, inst, cache, nextId, now, registered, faults, changes>>

-----------------------------------------------------------------------------
(* ModelRegistry.load_model *)

\* a load that never finds its key in the cache
cache_never_hit(key) == FALSE

cache_hit(key) == key \in DOMAIN cache

load_model(t, name, version) ==
    /\ Ready(t)
    /\ cache_hit(cache_key(name, version)) \/ nextId < MaxObj
    /\ LET c == [op |-> "load", name |-> name, version |-> version,
                 cache_key |-> cache_key(name, version), read |-> FALSE]
       IN  IF cache_hit(c.cache_key)
           THEN /\ Begin(t, "done", c)
                /\ ret' = [ret EXCEPT ![t] = Ok(cache[c.cache_key])]
           ELSE /\ Begin(t, "l_path", c)
                /\ UNCHANGED ret
    /\ UNCHANGED <<files, meta, dirs, inst, cache, nextId, now, registered, faults, changes>>

\* not path or not os.path.exists(path)
path_missing(path) == path = None \/ ~exists(path)

load_path(t) ==
    /\ pc[t] = "l_path"
    /\ LET r == _load_registry
           path == Lookup(r.val, loc[t].name, loc[t].version)
           c == [op |-> "load", name |-> loc[t].name, version |-> loc[t].version,
                 cache_key |-> loc[t].cache_key, read |-> TRUE]
       IN  IF r.kind = "raise"
           THEN /\ Finish(t, r)
                /\ loc' = [loc EXCEPT ![t] = c]
           ELSE IF path_missing(path)
           THEN /\ Finish(t, Raise("ValueError"))
                /\ loc' = [loc EXCEPT ![t] = c]
           ELSE /\ Goto(t, "l_read")
                /\ loc' = [loc EXCEPT ![t] =
                            [op |-> "load", name |-> loc[t].name, version |-> loc[t].version,
                             cache_key |-> loc[t].cache_key, read |-> TRUE, path |-> path]]
                /\ UNCHANGED ret
    /\ UNCHANGED <<files, meta, dirs, inst, cache, nextId, now, pre,
                   registered, faults, changes>>

\* with open(path, "r") as f: model_obj = f.read()
\* (the object f.read() returns is [id, data]; "of" notes the pair it was
\* read for)
\* open(path, "r") and f.read(): the bytes are decoded to text, and every
\* line ending is translated to "\n" (universal newlines)
read_text(bytes) ==
    IF bytes = NotText THEN Raise("UnicodeDecodeError")
    ELSE Ok(IF bytes = "c2\r\n" THEN "c2\n" ELSE bytes)

load_read(t) ==
    /\ pc[t] = "l_read"
    /\ IF loc[t].path \notin DOMAIN files
       THEN /\ Finish(t, Raise("FileNotFoundError"))
            /\ UNCHANGED <<loc, nextId>>
       ELSE LET r == read_text(files[loc[t].path])
            IN  IF r.kind = "raise"
                THEN /\ Finish(t, r)
                     /\ UNCHANGED <<loc, nextId>>
                ELSE /\ loc' = [loc EXCEPT ![t] =
                                 [op |-> "load", name |-> loc[t].name,
                                  version |-> loc[t].version,
                                  cache_key |-> loc[t].cache_key, read |-> TRUE,
                                  path |-> loc[t].path,
                                  model_obj |-> [id |-> nextId, data |-> r.val,
                                                 of |-> <<loc[t].name,
                                                          loc[t].version>>]]]
                     /\ nextId' = nextId + 1
                     /\ Goto(t, "l_store")
                     /\ UNCHANGED ret
    /\ UNCHANGED <<files, meta, dirs, inst, cache, now, pre, registered, faults, changes>>

load_store(t) ==
    /\ pc[t] = "l_store"
    /\ cache' = DictSet(cache, loc[t].cache_key, loc[t].model_obj)
    /\ Finish(t, Ok(loc[t].model_obj))
    /\ UNCHANGED <<files, meta, dirs, inst, nextId, now, loc, pre,
                   registered, faults, changes>>

-----------------------------------------------------------------------------
(* The caller takes the outcome of a finished call. *)

Return(t) ==
    /\ pc[t] = "done"
    /\ pc' = [pc EXCEPT ![t] = "idle"]
    /\ loc' = [loc EXCEPT ![t] = NoCall]
    /\ ret' = [ret EXCEPT ![t] = NoRet]
    /\ pre' = [pre EXCEPT ![t] = NoPre]
    /\ UNCHANGED <<files, meta, dirs, inst, cache, nextId, now, registered, faults, changes>>

(* The process ends: the instance slot, the cache, every object and every  *)
(* running call are gone, the files stay as they are.  Restart is the application       *)
(* ending between two calls, Crash the process dying inside a call.        *)
ProcessEnds ==
    /\ inst' = NoInstance
    /\ cache' = EmptyDict
    /\ pc' = [t \in Threads |-> "idle"]
    /\ loc' = [t \in Threads |-> NoCall]
    /\ ret' = [t \in Threads |-> NoRet]
    /\ pre' = [t \in Threads |-> NoPre]
    /\ nextId' = 0
    /\ UNCHANGED <<files, meta, dirs, now, registered>>

Restart ==
    /\ Quiet
    /\ inst.exists
    /\ ProcessEnds
    /\ UNCHANGED <<faults, changes>>

Crash ==
    /\ ~Quiet
    /\ faults < MaxFaults
    /\ faults' = faults + 1
    /\ ProcessEnds
    /\ UNCHANGED changes

-----------------------------------------------------------------------------
(* The environment: files changed from outside the registry. *)

WriteSource(sp, c) ==
    /\ Quiet
    /\ DictGet(files, SourcePath(sp), "") # c
    /\ files' = DictSet(files, SourcePath(sp), c)
    /\ changes < MaxChanges
    /\ changes' = changes + 1
    /\ UNCHANGED <<meta, dirs, inst, cache, nextId, now, pc, loc, ret, pre, registered, faults>>

DeleteFile(p) ==
    /\ Quiet
    /\ p \in DOMAIN files
    /\ files' = DictDel(files, p)
    /\ changes < MaxChanges
    /\ changes' = changes + 1
    /\ UNCHANGED <<meta, dirs, inst, cache, nextId, now, pc, loc, ret, pre, registered, faults>>

CorruptRegistry ==
    /\ Quiet
    /\ RegistryPath \in DOMAIN meta
    /\ \E g \in {Garbage, Undecodable} :
        /\ meta[RegistryPath] # g
        /\ meta' = DictSet(meta, RegistryPath, g)
    /\ changes < MaxChanges
    /\ changes' = changes + 1
    /\ UNCHANGED <<files, dirs, inst, cache, nextId, now, pc, loc, ret, pre, registered, faults>>

RemoveRegistry ==
    /\ Quiet
    /\ RegistryPath \in DOMAIN meta
    /\ meta' = DictDel(meta, RegistryPath)
    /\ changes < MaxChanges
    /\ changes' = changes + 1
    /\ UNCHANGED <<files, dirs, inst, cache, nextId, now, pc, loc, ret, pre, registered, faults>>

-----------------------------------------------------------------------------

Init ==
    /\ files = [p \in {SourcePath(sp) : sp \in SourceFiles} |->
                   IF p = "/tmp/a.bin" THEN "c1" ELSE "c2\r\n"]
    /\ meta = DictSet(EmptyDict, RegistryPath, json_dump(EmptyDict))
    /\ dirs = {BaseDir, join(BaseDir, "models")}
    /\ inst = [exists |-> TRUE, id |-> 1, initialized |-> TRUE, base_dir |-> BaseDir,
               models_dir |-> join(BaseDir, "models"),
               registry_path |-> RegistryPath]
    /\ cache = EmptyDict
    /\ nextId = 0
    /\ now = 0
    /\ pc = [t \in Threads |-> "idle"]
    /\ loc = [t \in Threads |-> NoCall]
    /\ ret = [t \in Threads |-> NoRet]
    /\ pre = [t \in Threads |-> NoPre]
    /\ registered = EmptyDict
    /\ faults = 0
    /\ changes = 0

\* the application creates its registry on BaseDir; a constructor call made
\* after that may pass any directory
Step(t) ==
    \/ \E b \in BaseDirs : (inst.initialized \/ b = BaseDir) /\ Construct(t, b)
    \/ save_open(t)
    \/ save_dump(t)
    \/ save_close(t)
    \/ save_move(t)
    \/ \E p \in Pairs, r \in Requests :
          register_model(t, p[1], p[2], r.model_path, r.metrics, r.metadata)
    \/ register_load(t)
    \/ \E p \in Pairs : get_model_path(t, p[1], p[2])
    \/ \E p \in Pairs : load_model(t, p[1], p[2])
    \/ load_path(t)
    \/ load_read(t)
    \/ load_store(t)
    \/ Return(t)

Environment ==
    \/ \E sp \in SourceFiles, c \in Contents : WriteSource(sp, c)
    \/ \E p \in DOMAIN files : DeleteFile(p)
    \/ CorruptRegistry
    \/ RemoveRegistry

(* One caller, one call at a time; the disk never fails and the process    *)
(* ends only between calls; files may be changed from outside.             *)
Next ==
    \/ \E t \in MainThread : Step(t)
    \/ Environment
    \/ Restart

Spec == Init /\ [][Next]_vars

(* One caller; a disk write can fail and the process can die at any step;  *)
(* nobody else touches the files.                                          *)
NextCrash ==
    \/ \E t \in MainThread : Step(t)
    \/ \E t \in MainThread : save_fails(t)
    \/ Crash
    \/ Restart

SpecCrash == Init /\ [][NextCrash]_vars

(* Two callers in one process, their calls interleaved step by step; the   *)
(* disk never fails and nobody else touches the files.  Each caller has    *)
(* its own source file; both register and load the same two pairs.         *)
ConcPairs == {<<"m", "1">>, <<"m", "x_1">>}
RequestOf(t) == CHOOSE r \in Requests : (r.model_path.base = "a.bin") <=> (t = "t1")

StepConc(t) ==
    \/ \E p \in ConcPairs :
          LET r == RequestOf(t)
          IN  register_model(t, p[1], p[2], r.model_path, r.metrics, r.metadata)
    \/ register_load(t)
    \/ save_open(t)
    \/ save_dump(t)
    \/ save_close(t)
    \/ save_move(t)
    \/ \E p \in ConcPairs : load_model(t, p[1], p[2])
    \/ load_path(t)
    \/ load_read(t)
    \/ load_store(t)
    \/ Return(t)

NextConc == \E t \in Threads : StepConc(t)

SpecConc == Init /\ [][NextConc]_vars

-----------------------------------------------------------------------------
(* What the claims speak about *)

\* the document a reader of the canonical file gets from the files m
Doc(m) ==
    LET f == DictGet(m, RegistryPath, Absent)
    IN  IF f.kind = "json" THEN f.doc ELSE EmptyDict

\* the record of a pair in the document (EmptyDict when there is none)
Record(m, name, version) == DictGet(DictGet(Doc(m), name, EmptyDict), version, EmptyDict)

\* what resolve_path answers for a pair over the files m
resolve_path(m, name, version) == Lookup(Doc(m), name, version)

Done(t, op) == pc[t] = "done" /\ loc[t].op = op

\* the exception load_model raises for a pair the document does not hold
NotFoundError == "ValueError"

-----------------------------------------------------------------------------
(* C1: a register call for a pair that already has a record fails (the     *)
(* claim: with AlreadyExists) and leaves the record of the pair and the    *)
(* stored artifact copy exactly as they were before the call.              *)
C1_DuplicateRegisterRejected ==
    \A t \in Threads :
        (/\ Done(t, "register")
         /\ resolve_path(pre[t].meta, loc[t].name, loc[t].version) # None)
        => /\ ret[t].kind = "raise"
           /\ Record(meta, loc[t].name, loc[t].version)
                = Record(pre[t].meta, loc[t].name, loc[t].version)
           /\ LET old == resolve_path(pre[t].meta, loc[t].name, loc[t].version)
              IN  DictGet(files, old, None) = DictGet(pre[t].files, old, None)

(* C2: restarting the registry on the same storage root (the process ends, *)
(* a new instance is constructed) does not alter the metadata document:    *)
(* every step of the process ending and of the constructor leaves          *)
(* resolve_path of every pair as it was.                                   *)
C2_RestartKeepsPaths ==
    [][ ((inst.exists /\ ~inst'.exists) \/ (\E t \in Threads : loc'[t].op = "init"))
        => \A p \in Pairs : resolve_path(meta', p[1], p[2]) = resolve_path(meta, p[1], p[2])
      ]_vars

\* a new instance has been constructed over a document that holds a record
C2_Witness ==
    \E t \in Threads :
        /\ Done(t, "init")
        /\ ~pre[t].inst.exists
        /\ inst.initialized
        /\ \E p \in Pairs : resolve_path(meta, p[1], p[2]) # None

(* C3: a successful load leaves the object it returns in the cache under   *)
(* the pair's key, and a load that finds its key in the cache returns that *)
(* very object (same identity) without reading the metadata document or    *)
(* the artifact file, whatever state those files are in; so two            *)
(* consecutive loads of a pair return the same object and the second       *)
(* reads nothing from the disk.                                            *)
C3_WarmLoadSameObjectNoDisk ==
    \A t \in Threads :
        Done(t, "load") =>
            /\ ret[t].kind = "ok" =>
                 /\ loc[t].cache_key \in DOMAIN cache
                 /\ cache[loc[t].cache_key] = ret[t].val
            /\ loc[t].cache_key \in DOMAIN pre[t].cache =>
                 /\ ret[t] = Ok(pre[t].cache[loc[t].cache_key])
                 /\ ~loc[t].read

\* a second load succeeded although the metadata document or the artifact
\* was removed or corrupted after the first
C3_Witness ==
    \E t \in Threads :
        /\ Done(t, "load")
        /\ loc[t].cache_key \in DOMAIN pre[t].cache
        /\ ret[t].kind = "ok"
        /\ <<loc[t].name, loc[t].version>> \in DOMAIN registered
        /\ \/ ReadMeta(RegistryPath).kind # "json"
           \/ ~exists(resolve_path(meta, loc[t].name, loc[t].version))

(* C4: a register call whose source file does not exist fails and has no   *)
(* side effects: no directory is created and the metadata is unchanged.    *)
C4_MissingSourceNoSideEffects ==
    \A t \in Threads :
        (Done(t, "register") /\ loc[t].src \notin DOMAIN pre[t].files)
        => /\ ret[t].kind = "raise"
           /\ dirs = pre[t].dirs
           /\ meta = pre[t].meta

Unparsable(f) == f.kind \in {"garbage", "binary", "empty", "partial"}

(* C6: over a metadata document that does not parse, the constructor      *)
(* succeeds, no call ends in an error of decoding or parsing the document, *)
(* and resolve_path answers absent for every pair, also for pairs          *)
(* registered before the corruption.                                       *)
C6_CorruptReadsAsEmpty ==
    \A t \in Threads :
        (pc[t] = "done" /\ Unparsable(DictGet(pre[t].meta, RegistryPath, Absent))) =>
            /\ ret[t].kind = "raise"
                 => ret[t].exc \notin {"JSONDecodeError", "UnicodeDecodeError"}
            /\ loc[t].op = "init" => ret[t].kind = "ok"
            /\ loc[t].op = "get_model_path" => ret[t] = Ok(None)

(* C7: a successful load of a registered pair returns the content the      *)
(* source file had when the pair was registered.                           *)
C7_LoadReturnsRegisteredContent ==
    \A t \in Threads :
        (/\ Done(t, "load")
         /\ ret[t].kind = "ok"
         /\ <<loc[t].name, loc[t].version>> \in DOMAIN registered)
        => ret[t].val.data = registered[<<loc[t].name, loc[t].version>>]

(* C8: a load of a pair that has no record, with its key not in the cache, *)
(* fails with the not-found error and changes nothing: the cache, the      *)
(* metadata, the artifact files and the directories are as before.         *)
C8_UnregisteredLoadFailsCleanly ==
    \A t \in Threads :
        (/\ Done(t, "load")
         /\ resolve_path(pre[t].meta, loc[t].name, loc[t].version) = None
         /\ loc[t].cache_key \notin DOMAIN pre[t].cache)
        => /\ ret[t] = Raise(NotFoundError)
           /\ cache = pre[t].cache
           /\ meta = pre[t].meta
           /\ files = pre[t].files
           /\ dirs = pre[t].dirs

\* a cold load of a pair whose record names a file that does not exist
Drifted(t) ==
    /\ Done(t, "load")
    /\ loc[t].cache_key \notin DOMAIN pre[t].cache
    /\ resolve_path(pre[t].meta, loc[t].name, loc[t].version) # None
    /\ resolve_path(pre[t].meta, loc[t].name, loc[t].version) \notin DOMAIN pre[t].files

(* C9: a cold load of a pair whose recorded file is missing fails with an  *)
(* error kind other than the not-found error raised for a pair that the    *)
(* metadata does not hold.                                                 *)
C9_MissingArtifactDistinctError ==
    \A t \in Threads :
        Drifted(t) => ret[t].kind = "raise" /\ ret[t].exc # NotFoundError

-----------------------------------------------------------------------------
(* Two callers *)

\* the call of u was running when the call of t started, or the other way round
Overlap(t, u) ==
    \/ pre[t].pc[u] \notin {"idle", "done"}
    \/ pre[u].pc[t] \notin {"idle", "done"}

(* C11: two loads of the same pair that run concurrently in one process    *)
(* and both succeed return the same object, the file having been read once. *)
C11_ConcurrentLoadsOneObject ==
    \A t, u \in Threads :
        (/\ t # u
         /\ Done(t, "load") /\ Done(u, "load")
         /\ loc[t].name = loc[u].name /\ loc[t].version = loc[u].version
         /\ ret[t].kind = "ok" /\ ret[u].kind = "ok")
        => ret[t].val = ret[u].val

(* C12: of two register calls for the same pair that run concurrently in   *)
(* one process exactly one returns a record, the other one fails, and the  *)
(* persisted record of the pair is the one that was returned.              *)
C12_ConcurrentRegisterOneWins ==
    \A t, u \in Threads :
        (/\ t # u
         /\ Done(t, "register") /\ Done(u, "register")
         /\ loc[t].name = loc[u].name /\ loc[t].version = loc[u].version
         /\ Overlap(t, u)
         /\ ret[t].kind = "ok")
        => /\ ret[u].kind = "raise"
           /\ Record(meta, loc[t].name, loc[t].version) = ret[t].val

-----------------------------------------------------------------------------
(* One instance *)

-----------------------------------------------------------------------------
(* Cache keys *)

(* C14: two distinct registered pairs never share a cache entry: the       *)
(* object a successful load of a registered (name, version) returns was    *)
(* read for that pair, not for another pair with a colliding key.          *)
C14_NoSharedCacheEntry ==
    \A t \in Threads :
        (/\ Done(t, "load")
         /\ <<loc[t].name, loc[t].version>> \in DOMAIN registered
         /\ ret[t].kind = "ok")
        => ret[t].val.of = <<loc[t].name, loc[t].version>>

-----------------------------------------------------------------------------
(* Statuses of a pair and of a cache key *)

(* C15: in a run of register, resolve_path and load calls with no file     *)
(* changed from outside, the path resolve_path answers for a pair, once    *)
(* there is one, never changes or disappears, and a populated cache key    *)
(* keeps its object for as long as the process lives.                      *)
C15_MonotonicStatuses ==
    [][ changes' = 0 =>
          /\ \A p \in Pairs :
                resolve_path(meta, p[1], p[2]) # None
                => resolve_path(meta', p[1], p[2]) = resolve_path(meta, p[1], p[2])
          /\ (inst.exists /\ inst'.exists)
                => \A k \in DOMAIN cache : k \in DOMAIN cache' /\ cache'[k] = cache[k]
      ]_vars

-----------------------------------------------------------------------------
(* Artifact isolation *)

\* <working directory>/<root>/models/<name>/<version>/<base name of the source>
StoragePath(name, version, base) ==
    cwd \o "/" \o BaseDir \o "/models/" \o name \o "/" \o version \o "/" \o base

-----------------------------------------------------------------------------
(* Cache coherence *)

(* C17: with no file changed from outside, what a successful load of a     *)
(* pair returns is what a cold load of the pair would return: the content  *)
(* read from the file now stored at the path resolve_path answers for it.  *)
C17_CacheCoherent ==
    \A t \in Threads :
        (Done(t, "load") /\ ret[t].kind = "ok" /\ changes = 0)
        => LET path == resolve_path(meta, loc[t].name, loc[t].version)
           IN  /\ path \in DOMAIN files
               /\ read_text(files[path]) = Ok(ret[t].val.data)

-----------------------------------------------------------------------------
(* Records and their files *)

\* the storage paths the records of the persisted document name
RecordedPaths ==
    {Doc(meta)[n][v].path : <<n, v>> \in
        {<<n, v>> \in (DOMAIN Doc(meta)) \X {p[2] : p \in Pairs} :
            v \in DOMAIN Doc(meta)[n]}}

(* C18: with nobody deleting files, at every moment, after a crash or a    *)
(* failed write at any step of register too, every record of the           *)
(* persisted document names a storage path at which a file exists.         *)
C18_NoDanglingRecord == RecordedPaths \subseteq DOMAIN files

\* a fault has left a stored artifact that no record names, next to a record
\* with its file
C18_Witness ==
    /\ faults > 0
    /\ RecordedPaths # {}
    /\ \E f \in DOMAIN files :
          /\ f \notin RecordedPaths
          /\ f \notin {SourcePath(sp) : sp \in SourceFiles}

-----------------------------------------------------------------------------
(* Two callers writing the document *)

(* C19: when two register calls for different pairs have run concurrently  *)
(* in one process and both have returned a record, the persisted document  *)
(* holds both records.                                                     *)
C19_NoLostUpdate ==
    \A t, u \in Threads :
        (/\ t # u
         /\ Done(t, "register") /\ Done(u, "register")
         /\ <<loc[t].name, loc[t].version>> # <<loc[u].name, loc[u].version>>
         /\ Overlap(t, u)
         /\ ret[t].kind = "ok" /\ ret[u].kind = "ok")
        => /\ resolve_path(meta, loc[t].name, loc[t].version) = ret[t].val.path
           /\ resolve_path(meta, loc[u].name, loc[u].version) = ret[u].val.path

(* C20: while two saves run concurrently in one process, both through the  *)
(* one temporary path, the canonical metadata file always holds a complete *)
(* document, never an empty or partly written one.                         *)
C20_ConcurrentSavesKeepCanonicalComplete ==
    ReadMeta(RegistryPath).kind = "json"

====
